---- MODULE Spec2Model ----
(***************************************************************************)
(* Model of ear/fileio/adm/timing_fixes.py: the three audioBlockFormat     *)
(* timing fixes (durations, interpolationLengths, containment in            *)
(* audioObjects) and the pipeline fix_blockFormat_timings that runs them.   *)
(*                                                                         *)
(* An optional field is a sequence: <<>> is Python's None, <<v>> is the     *)
(* value v.  A block format is a record                                     *)
(*   [rtime, duration, objects, flag, interpolationLength]                  *)
(* where objects says that it is an AudioBlockFormatObjects, and flag and   *)
(* interpolationLength are the fields of its jumpPosition.  The id of a     *)
(* block format is its place <<channel, index>>.                            *)
(*                                                                         *)
(* Each entry point has its own specification, whose initial states are     *)
(* the scenes it is called on: SpecDurations, SpecInterpolationLengths,     *)
(* SpecTimesForAudioObjects and SpecTimings.  A scene has one or two        *)
(* channel formats of one to three block formats and up to two objects;     *)
(* the times in it are bounded by MaxTime and MaxDur.  The variable entry   *)
(* is a history variable: it keeps the block formats as the call found      *)
(* them, and no action reads it.                                            *)
(***************************************************************************)
EXTENDS Integers, Sequences, FiniteSets, TLC

\* ---------------------------------------------------------------- bounds
\* rtimes of block formats and starts of objects range over 0..MaxTime
MaxTime == 1
\* durations and interpolationLengths range over 0..MaxDur
MaxDur == 2

None == <<>>
Some(v) == <<v>>
Val(x) == x[1]

Optional(S) == {None} \cup {Some(v) : v \in S}

\* jumpPosition of the block formats of the inputs: not an Objects block
\* format at all, flag unset with a length, flag set with a length
JumpPositions ==
    {[objects |-> FALSE, flag |-> FALSE, interpolationLength |-> None],
     [objects |-> TRUE, flag |-> FALSE, interpolationLength |-> Some(MaxDur)]}
    \cup {[objects |-> TRUE, flag |-> TRUE, interpolationLength |-> Some(n)] :
             n \in 0..MaxDur}

Blocks(R, D, J) ==
    {[rtime |-> r, duration |-> d, objects |-> j.objects, flag |-> j.flag,
      interpolationLength |-> j.interpolationLength] : r \in R, d \in D, j \in J}

\* every combination of set and unset fields
AllBlocks == Blocks(Optional(0..MaxTime), Optional(0..MaxDur), JumpPositions)

\* rtime and duration both set or both unset, as a validated document has them
ValidatedBlocks == {b \in AllBlocks : (b.rtime = None) <=> (b.duration = None)}

\* fully timed block formats without a jumpPosition
PlainBlocks ==
    Blocks({Some(t) : t \in 0..MaxTime}, {Some(d) : d \in 0..MaxDur},
           {[objects |-> FALSE, flag |-> FALSE, interpolationLength |-> None]})

\* block formats that may outlast every object
LongBlocks == Blocks(Optional(0..MaxTime), Optional(0..MaxDur + 1), JumpPositions)

\* the channel allocations an object may resolve to in a scene of n channel
\* formats: one channel, or all of them in either order
Allocations(n) ==
    {<<c>> : c \in 1..n} \cup {[k \in 1..n |-> k], [k \in 1..n |-> n + 1 - k]}

AllObjects(n) ==
    [start : Optional(0..MaxTime), duration : Optional(0..MaxDur),
     channel_allocation : Allocations(n)]

\* start and duration both set or both unset
ValidatedObjects(n) == {o \in AllObjects(n) : (o.start = None) <=> (o.duration = None)}

VARIABLES
    audioChannelFormats,  \* channel -> sequence of block formats
    audioObjects,         \* object -> [start, duration, channel_allocation]
    call,                 \* the entry point called last: "none" before any call
    pc,                   \* "idle" before any call, then where the call is, then
                          \* "returned" or "raised"
    cursor,               \* index of the next visit of the containment pass
    warnings,             \* diagnostics of the current (or last) call
    error,                \* None, or the ValueError raised
    entry,                \* history: audioChannelFormats as the call found them
    rerun                 \* the running (or last) call started on the scene a completed
                          \* fix_blockFormat_timings had just left

vars == <<audioChannelFormats, audioObjects, call, pc, cursor, warnings, error, entry, rerun>>

ChannelIds == DOMAIN audioChannelFormats
ObjectIds == DOMAIN audioObjects

\* ------------------------------------------------------------ predicate
has_interpolationLength(blockFormat) ==
    /\ blockFormat.objects
    /\ blockFormat.flag
    /\ blockFormat.interpolationLength # None

FullyTimed(bf) == bf.rtime # None /\ bf.duration # None

\* ------------------------------------------------- fix_blockFormat_durations
\* Mutant of DurationsPair: closes gaps only, an overlap is left alone.
DurationsPair_OnlyExpands(bfs, c, i) ==
    LET bf_a == bfs[i]
        bf_b == bfs[i + 1]
    IN IF ~(bf_a.rtime # None /\ bf_a.duration # None)
          \/ ~(bf_b.rtime # None /\ bf_b.duration # None)
       THEN [bfs |-> bfs, warnings |-> <<>>]
       ELSE LET old_duration == Val(bf_a.duration)
                new_duration == Val(bf_b.rtime) - Val(bf_a.rtime)
            IN IF new_duration > old_duration
               THEN [bfs |-> [bfs EXCEPT ![i].duration = Some(new_duration)],
                     warnings |-> <<[kind |-> "expanded duration", id |-> <<c, i>>,
                                     old |-> old_duration, new |-> new_duration]>>]
               ELSE [bfs |-> bfs, warnings |-> <<>>]

\* Mutant of DurationsPair: the interpolationLength is cut to the new
\* duration whenever it exceeds it, also when it exceeded the old one.
DurationsPair_ShrinkWhenever(bfs, c, i) ==
    LET bf_a == bfs[i]
        bf_b == bfs[i + 1]
    IN IF ~(bf_a.rtime # None /\ bf_a.duration # None)
          \/ ~(bf_b.rtime # None /\ bf_b.duration # None)
       THEN [bfs |-> bfs, warnings |-> <<>>]
       ELSE LET old_duration == Val(bf_a.duration)
                new_duration == Val(bf_b.rtime) - Val(bf_a.rtime)
                shrink == /\ bf_a.objects /\ bf_a.flag /\ bf_a.interpolationLength # None
                          /\ new_duration < Val(bf_a.interpolationLength)
            IN IF old_duration # new_duration
               THEN [bfs |-> [bfs EXCEPT
                                ![i].duration = Some(new_duration),
                                ![i].interpolationLength =
                                    IF shrink THEN Some(new_duration) ELSE @],
                     warnings |->
                       <<[kind |-> IF new_duration > old_duration
                                   THEN "expanded duration"
                                   ELSE "contracted duration",
                          id |-> <<c, i>>,
                          old |-> old_duration,
                          new |-> new_duration]>>]
               ELSE [bfs |-> bfs, warnings |-> <<>>]

\* One iteration of the loop over zip(blockFormat[:-1], blockFormat[1:]):
\* the pair (bfs[i], bfs[i+1]) of channel c.  The result is the block
\* formats of the channel and the warnings of the iteration.
DurationsPair(bfs, c, i) ==
    LET bf_a == bfs[i]
        bf_b == bfs[i + 1]
    IN IF ~FullyTimed(bf_a) \/ ~FullyTimed(bf_b)
       THEN [bfs |-> bfs, warnings |-> <<>>]
       ELSE LET old_duration == Val(bf_a.duration)
                new_duration == Val(bf_b.rtime) - Val(bf_a.rtime)
                shrink == /\ has_interpolationLength(bf_a)
                          /\ old_duration >= Val(bf_a.interpolationLength)
                          /\ new_duration < Val(bf_a.interpolationLength)
                fixed_a == [bf_a EXCEPT
                              !.duration = Some(new_duration),
                              !.interpolationLength =
                                  IF shrink THEN Some(new_duration) ELSE @]
            IN IF old_duration # new_duration
               THEN [bfs |-> [bfs EXCEPT ![i] = fixed_a],
                     warnings |->
                       <<[kind |-> IF new_duration > old_duration
                                   THEN "expanded duration"
                                   ELSE "contracted duration",
                          id |-> <<c, i>>,
                          old |-> old_duration,
                          new |-> new_duration]>>]
               ELSE [bfs |-> bfs, warnings |-> <<>>]

RECURSIVE DurationsChannel(_, _, _)
DurationsChannel(bfs, c, i) ==
    IF i >= Len(bfs) THEN [bfs |-> bfs, warnings |-> <<>>]
    ELSE LET one == DurationsPair(bfs, c, i)
             rest == DurationsChannel(one.bfs, c, i + 1)
         IN [bfs |-> rest.bfs, warnings |-> one.warnings \o rest.warnings]

RECURSIVE ConcatWarnings(_, _)
ConcatWarnings(f, c) ==
    IF c > Len(f) THEN <<>>
    ELSE f[c].warnings \o ConcatWarnings(f, c + 1)

fix_blockFormat_durations(acf) ==
    LET per == [c \in DOMAIN acf |-> DurationsChannel(acf[c], c, 1)]
    IN [acf |-> [c \in DOMAIN acf |-> per[c].bfs],
        warnings |-> ConcatWarnings(per, 1)]

\* --------------------------------------- fix_blockFormat_interpolationLengths
\* Mutant of InterpolationLengthsBlock: the warning is given and the
\* assignment forgotten.
InterpolationLengthsBlock_WarnOnly(bf, c, i) ==
    IF ~FullyTimed(bf) \/ ~has_interpolationLength(bf)
    THEN [bf |-> bf, warnings |-> <<>>]
    ELSE IF Val(bf.interpolationLength) > Val(bf.duration)
         THEN [bf |-> bf,
               warnings |-> <<[kind |-> "contracted interpolationLength",
                               id |-> <<c, i>>,
                               old |-> Val(bf.interpolationLength),
                               new |-> Val(bf.duration)]>>]
         ELSE [bf |-> bf, warnings |-> <<>>]

\* One iteration of the loop over the block formats of a channel format.
InterpolationLengthsBlock(bf, c, i) ==
    IF ~FullyTimed(bf) \/ ~has_interpolationLength(bf)
    THEN [bf |-> bf, warnings |-> <<>>]
    ELSE IF Val(bf.interpolationLength) > Val(bf.duration)
         THEN [bf |-> [bf EXCEPT !.interpolationLength = bf.duration],
               warnings |-> <<[kind |-> "contracted interpolationLength",
                               id |-> <<c, i>>,
                               old |-> Val(bf.interpolationLength),
                               new |-> Val(bf.duration)]>>]
         ELSE [bf |-> bf, warnings |-> <<>>]

RECURSIVE InterpolationLengthsChannel(_, _, _)
InterpolationLengthsChannel(bfs, c, i) ==
    IF i > Len(bfs) THEN [bfs |-> bfs, warnings |-> <<>>]
    ELSE LET one == InterpolationLengthsBlock(bfs[i], c, i)
             rest == InterpolationLengthsChannel([bfs EXCEPT ![i] = one.bf], c, i + 1)
         IN [bfs |-> rest.bfs, warnings |-> one.warnings \o rest.warnings]

fix_blockFormat_interpolationLengths(acf) ==
    LET per == [c \in DOMAIN acf |-> InterpolationLengthsChannel(acf[c], c, 1)]
    IN [acf |-> [c \in DOMAIN acf |-> per[c].bfs],
        warnings |-> ConcatWarnings(per, 1)]

\* ------------------------------------------------------------- the clamps
\* Each clamp gives the block format, the warnings and the error (None when
\* it returns normally; the block format is then as the clamp left it).
\* _clamp_blockFormat_interpolationLength
clamp_blockFormat_interpolationLength(bf, id, obj, oid) ==
    IF has_interpolationLength(bf)
       /\ Val(bf.interpolationLength) > Val(obj.duration)
    THEN [bf |-> [bf EXCEPT !.interpolationLength = obj.duration],
          warnings |-> <<[kind |-> "reduced interpolationLength",
                          id |-> id, obj |-> oid]>>,
          error |-> None]
    ELSE [bf |-> bf, warnings |-> <<>>, error |-> None]

\* Mutant of clamp_blockFormat_start: the block is shortened and its rtime
\* is not delayed.
clamp_blockFormat_start_NoDelay(bf, id, obj, oid) ==
    IF Val(bf.rtime) < Val(obj.start)
    THEN LET shift == Val(obj.start) - Val(bf.rtime)
         IN IF shift >= Val(bf.duration)
            THEN [bf |-> bf, warnings |-> <<>>,
                  error |-> Some([kind |-> "after the block end",
                                  id |-> id, obj |-> oid, shift |-> shift])]
            ELSE IF has_interpolationLength(bf)
                    /\ Val(bf.interpolationLength) <= shift
            THEN [bf |-> bf, warnings |-> <<>>,
                  error |-> Some([kind |-> "after the end of the interpolation period",
                                  id |-> id, obj |-> oid, shift |-> shift])]
            ELSE [bf |-> [bf EXCEPT
                            !.duration = Some(Val(@) - shift),
                            !.interpolationLength =
                                IF has_interpolationLength(bf)
                                THEN Some(Val(@) - shift) ELSE @],
                  warnings |-> <<[kind |-> "delayed rtime",
                                  id |-> id, obj |-> oid, shift |-> shift]>>,
                  error |-> None]
    ELSE [bf |-> bf, warnings |-> <<>>, error |-> None]

\* Mutant of clamp_blockFormat_start: a shift of exactly the
\* interpolationLength is let through.
clamp_blockFormat_start_LateCheck(bf, id, obj, oid) ==
    IF Val(bf.rtime) < Val(obj.start)
    THEN LET shift == Val(obj.start) - Val(bf.rtime)
         IN IF shift >= Val(bf.duration)
            THEN [bf |-> bf, warnings |-> <<>>,
                  error |-> Some([kind |-> "after the block end",
                                  id |-> id, obj |-> oid, shift |-> shift])]
            ELSE IF has_interpolationLength(bf)
                    /\ Val(bf.interpolationLength) < shift
            THEN [bf |-> bf, warnings |-> <<>>,
                  error |-> Some([kind |-> "after the end of the interpolation period",
                                  id |-> id, obj |-> oid, shift |-> shift])]
            ELSE [bf |-> [bf EXCEPT
                            !.rtime = Some(Val(@) + shift),
                            !.duration = Some(Val(@) - shift),
                            !.interpolationLength =
                                IF has_interpolationLength(bf)
                                THEN Some(Val(@) - shift) ELSE @],
                  warnings |-> <<[kind |-> "delayed rtime",
                                  id |-> id, obj |-> oid, shift |-> shift]>>,
                  error |-> None]
    ELSE [bf |-> bf, warnings |-> <<>>, error |-> None]

\* _clamp_blockFormat_start
clamp_blockFormat_start(bf, id, obj, oid) ==
    IF Val(bf.rtime) < Val(obj.start)
    THEN LET shift == Val(obj.start) - Val(bf.rtime)
         IN IF shift >= Val(bf.duration)
            THEN [bf |-> bf, warnings |-> <<>>,
                  error |-> Some([kind |-> "after the block end",
                                  id |-> id, obj |-> oid, shift |-> shift])]
            ELSE IF has_interpolationLength(bf)
                    /\ Val(bf.interpolationLength) <= shift
            THEN [bf |-> bf, warnings |-> <<>>,
                  error |-> Some([kind |-> "after the end of the interpolation period",
                                  id |-> id, obj |-> oid, shift |-> shift])]
            ELSE [bf |-> [bf EXCEPT
                            !.rtime = Some(Val(@) + shift),
                            !.duration = Some(Val(@) - shift),
                            !.interpolationLength =
                                IF has_interpolationLength(bf)
                                THEN Some(Val(@) - shift) ELSE @],
                  warnings |-> <<[kind |-> "delayed rtime",
                                  id |-> id, obj |-> oid, shift |-> shift]>>,
                  error |-> None]
    ELSE [bf |-> bf, warnings |-> <<>>, error |-> None]

\* Mutant of clamp_blockFormat_end: the interpolationLength is not reduced
\* with the duration.
clamp_blockFormat_end_NoReduce(bf, id, obj, oid) ==
    LET block_end == Val(bf.rtime) + Val(bf.duration)
        object_end == Val(obj.start) + Val(obj.duration)
    IN IF block_end > object_end
       THEN LET shift == block_end - object_end
            IN IF shift >= Val(bf.duration)
               THEN [bf |-> bf, warnings |-> <<>>,
                     error |-> Some([kind |-> "before the block start",
                                     id |-> id, obj |-> oid, shift |-> shift])]
               ELSE [bf |-> [bf EXCEPT !.duration = Some(Val(@) - shift)],
                     warnings |-> <<[kind |-> "advanced end",
                                     id |-> id, obj |-> oid, shift |-> shift]>>,
                     error |-> None]
       ELSE [bf |-> bf, warnings |-> <<>>, error |-> None]

\* _clamp_blockFormat_end
clamp_blockFormat_end(bf, id, obj, oid) ==
    LET block_end == Val(bf.rtime) + Val(bf.duration)
        object_end == Val(obj.start) + Val(obj.duration)
    IN IF block_end > object_end
       THEN LET shift == block_end - object_end
                shorter == [bf EXCEPT !.duration = Some(Val(@) - shift)]
            IN IF shift >= Val(bf.duration)
               THEN [bf |-> bf, warnings |-> <<>>,
                     error |-> Some([kind |-> "before the block start",
                                     id |-> id, obj |-> oid, shift |-> shift])]
               ELSE IF has_interpolationLength(shorter)
                       /\ Val(shorter.interpolationLength) > Val(shorter.duration)
               THEN [bf |-> [shorter EXCEPT !.interpolationLength = shorter.duration],
                     warnings |-> <<[kind |-> "advanced end",
                                     id |-> id, obj |-> oid, shift |-> shift],
                                    [kind |-> "reduced the interpolationLength too",
                                     id |-> id, obj |-> oid, shift |-> shift]>>,
                     error |-> None]
               ELSE [bf |-> shorter,
                     warnings |-> <<[kind |-> "advanced end",
                                     id |-> id, obj |-> oid, shift |-> shift]>>,
                     error |-> None]
       ELSE [bf |-> bf, warnings |-> <<>>, error |-> None]

\* _clamp_blockFormat_times: the start clamp, then the end clamp unless the
\* start clamp raised
clamp_blockFormat_times(bf, id, obj, oid) ==
    IF bf.rtime = None \/ bf.duration = None
    THEN clamp_blockFormat_interpolationLength(bf, id, obj, oid)
    ELSE LET s == clamp_blockFormat_start(bf, id, obj, oid)
         IN IF s.error # None THEN s
            ELSE LET e == clamp_blockFormat_end(s.bf, id, obj, oid)
                 IN [bf |-> e.bf, warnings |-> s.warnings \o e.warnings,
                     error |-> e.error]

\* ------------------------------------ fix_blockFormat_times_for_audioObjects
RECURSIVE Flatten(_)
Flatten(ss) == IF ss = <<>> THEN <<>> ELSE Head(ss) \o Flatten(Tail(ss))

\* select_pack_mapping for one object: the channel formats it resolves to
select_pack_mapping(o) == audioObjects[o].channel_allocation

\* The visits <<object, channel, index>> of the three nested loops, in the
\* order of the loops; an object without start or duration is skipped.
VisitsOfObject(o) ==
    LET alloc == select_pack_mapping(o)
    IN Flatten([k \in 1..Len(alloc) |->
                  [i \in 1..Len(audioChannelFormats[alloc[k]]) |-> <<o, alloc[k], i>>]])

Visits ==
    Flatten([o \in 1..Len(audioObjects) |->
               IF audioObjects[o].start = None \/ audioObjects[o].duration = None
               THEN <<>>
               ELSE VisitsOfObject(o)])

\* ----------------------------------------------------------------- state
\* The scenes of a family: nc channel formats of nb block formats from B
\* each, and n objects from O.
Scene(nc, nb, B, n, O) ==
    /\ audioChannelFormats \in [1..nc -> [1..nb -> B]]
    /\ audioObjects \in [1..n -> O]

BeforeAnyCall ==
    /\ call = "none"
    /\ pc = "idle"
    /\ cursor = 1
    /\ warnings = <<>>
    /\ error = None
    /\ entry = audioChannelFormats
    /\ rerun = FALSE

\* fix_blockFormat_durations(adm), called by the user
CallDurations ==
    /\ pc = "idle"
    /\ LET r == fix_blockFormat_durations(audioChannelFormats)
       IN /\ audioChannelFormats' = r.acf
          /\ warnings' = r.warnings
    /\ entry' = audioChannelFormats
    /\ call' = "durations"
    /\ pc' = "returned"
    /\ UNCHANGED <<audioObjects, cursor, error, rerun>>

\* fix_blockFormat_interpolationLengths(adm), called by the user
CallInterpolationLengths ==
    /\ pc = "idle"
    /\ LET r == fix_blockFormat_interpolationLengths(audioChannelFormats)
       IN /\ audioChannelFormats' = r.acf
          /\ warnings' = r.warnings
    /\ entry' = audioChannelFormats
    /\ call' = "interpolationLengths"
    /\ pc' = "returned"
    /\ UNCHANGED <<audioObjects, cursor, error, rerun>>

\* fix_blockFormat_times_for_audioObjects(adm), called by the user: the
\* loops start
CallTimesForAudioObjects ==
    /\ pc = "idle"
    /\ call' = "objects"
    /\ pc' = "clamp"
    /\ cursor' = 1
    /\ entry' = audioChannelFormats
    /\ UNCHANGED <<audioChannelFormats, audioObjects, warnings, error, rerun>>

\* fix_blockFormat_timings(adm), called by the user, for the first time or
\* again on the scene its last run left: its first statement
TimingsDurations ==
    /\ \/ pc = "idle"
       \/ pc = "returned" /\ call = "timings"
    /\ LET r == fix_blockFormat_durations(audioChannelFormats)
       IN /\ audioChannelFormats' = r.acf
          /\ warnings' = r.warnings
    /\ entry' = audioChannelFormats
    /\ rerun' = (pc = "returned")
    /\ call' = "timings"
    /\ pc' = "interpolationLengths"
    /\ UNCHANGED <<audioObjects, cursor, error>>

\* fix_blockFormat_timings: its second statement
TimingsInterpolationLengths ==
    /\ pc = "interpolationLengths"
    /\ LET r == fix_blockFormat_interpolationLengths(audioChannelFormats)
       IN /\ audioChannelFormats' = r.acf
          /\ warnings' = warnings \o r.warnings
    /\ pc' = "clamp"
    /\ cursor' = 1
    /\ UNCHANGED <<audioObjects, call, error, entry, rerun>>

\* Mutant of ClampVisit: the ValueError is caught and noted, and the loops
\* go on with the next block format.
ClampVisit_Swallow ==
    /\ pc = "clamp"
    /\ cursor <= Len(Visits)
    /\ LET v == Visits[cursor]
           o == v[1]
           c == v[2]
           i == v[3]
           r == clamp_blockFormat_times(audioChannelFormats[c][i], <<c, i>>,
                                        audioObjects[o], o)
       IN /\ audioChannelFormats' = [audioChannelFormats EXCEPT ![c][i] = r.bf]
          /\ warnings' = warnings \o r.warnings
          /\ error' = IF r.error # None THEN r.error ELSE error
          /\ pc' = "clamp"
          /\ cursor' = cursor + 1
    /\ UNCHANGED <<audioObjects, call, entry, rerun>>

\* One iteration of the innermost loop of
\* fix_blockFormat_times_for_audioObjects: _clamp_blockFormat_times of one
\* block format against one object.  A ValueError is caught nowhere: it
\* ends the loops and the call.
ClampVisit ==
    /\ pc = "clamp"
    /\ cursor <= Len(Visits)
    /\ LET v == Visits[cursor]
           o == v[1]
           c == v[2]
           i == v[3]
           r == clamp_blockFormat_times(audioChannelFormats[c][i], <<c, i>>,
                                        audioObjects[o], o)
       IN /\ audioChannelFormats' = [audioChannelFormats EXCEPT ![c][i] = r.bf]
          /\ warnings' = warnings \o r.warnings
          /\ error' = r.error
          /\ pc' = IF r.error # None THEN "raised" ELSE "clamp"
          /\ cursor' = IF r.error # None THEN cursor ELSE cursor + 1
    /\ UNCHANGED <<audioObjects, call, entry, rerun>>

\* The loops are over: the call returns.
ClampReturn ==
    /\ pc = "clamp"
    /\ cursor > Len(Visits)
    /\ pc' = "returned"
    /\ UNCHANGED <<audioChannelFormats, audioObjects, call, cursor, warnings, error,
                   entry, rerun>>

\* ------------------------------------------------------- specifications
\* fix_blockFormat_durations on a channel format of two block formats of
\* any kind, or of three plain ones
InitDurations ==
    /\ \/ Scene(1, 2, AllBlocks, 0, {})
       \/ Scene(1, 3, PlainBlocks, 0, {})
    /\ BeforeAnyCall

NextDurations == CallDurations

SpecDurations == InitDurations /\ [][NextDurations]_vars

\* fix_blockFormat_interpolationLengths on two block formats of any kind,
\* in one channel format or in two
InitInterpolationLengths ==
    /\ \/ Scene(1, 2, AllBlocks, 0, {})
       \/ Scene(2, 1, AllBlocks, 0, {})
    /\ BeforeAnyCall

NextInterpolationLengths == CallInterpolationLengths

SpecInterpolationLengths == InitInterpolationLengths /\ [][NextInterpolationLengths]_vars

\* fix_blockFormat_times_for_audioObjects on a block format shared by two
\* objects, on two block formats of a channel format of one object, and on
\* two channel formats of one object of any kind that selects one or both
InitTimesForAudioObjects ==
    /\ \/ Scene(1, 1, LongBlocks, 2, ValidatedObjects(1))
       \/ Scene(1, 2, ValidatedBlocks, 1, ValidatedObjects(1))
       \/ Scene(2, 1, PlainBlocks, 1, AllObjects(2))
    /\ BeforeAnyCall

NextTimesForAudioObjects ==
    \/ CallTimesForAudioObjects
    \/ ClampVisit
    \/ ClampReturn

SpecTimesForAudioObjects == InitTimesForAudioObjects /\ [][NextTimesForAudioObjects]_vars

\* fix_blockFormat_timings, run and run again, on a validated scene: two
\* block formats of a channel format of one object, or a block format shared
\* by two objects
InitTimings ==
    /\ \/ Scene(1, 2, ValidatedBlocks, 1, ValidatedObjects(1))
       \/ Scene(1, 1, ValidatedBlocks, 2, ValidatedObjects(1))
    /\ BeforeAnyCall

NextTimings ==
    \/ TimingsDurations
    \/ TimingsInterpolationLengths
    \/ ClampVisit
    \/ ClampReturn

SpecTimings == InitTimings /\ [][NextTimings]_vars

\* ---------------------------------------------------------------- claims
BlockIds ==
    UNION {{<<c, i>> : i \in 1..Len(audioChannelFormats[c])} : c \in ChannelIds}

Block(id) == audioChannelFormats[id[1]][id[2]]

EntryBlock(id) == entry[id[1]][id[2]]

HasSpan(obj) == obj.start # None /\ obj.duration # None

\* the warnings of w that name block format id, in order
WarningsOf(w, id) == SelectSeq(w, LAMBDA x : x.id = id)

Kinds(w) == {w[n].kind : n \in 1..Len(w)}

Contiguous(acf) ==
    \A c \in DOMAIN acf : \A i \in 1..(Len(acf[c]) - 1) :
        FullyTimed(acf[c][i]) /\ FullyTimed(acf[c][i + 1])
            => Val(acf[c][i + 1].rtime) = Val(acf[c][i].rtime) + Val(acf[c][i].duration)

\* C1: when fix_blockFormat_durations has returned, every consecutive pair
\* of fully timed block formats (a, b) of every channel format has
\* b.rtime = a.rtime + a.duration.
C1_Contiguity ==
    call = "durations" /\ pc = "returned" => Contiguous(audioChannelFormats)

\* C1 witness: the call has returned from a channel format of three fully
\* timed block formats, having expanded one and contracted another.
C1_Witness ==
    /\ call = "durations" /\ pc = "returned"
    /\ Len(audioChannelFormats[1]) = 3
    /\ Kinds(warnings) = {"expanded duration", "contracted duration"}

Contained ==
    \A o \in ObjectIds :
        HasSpan(audioObjects[o]) =>
            \A k \in 1..Len(audioObjects[o].channel_allocation) :
                LET bfs == audioChannelFormats[audioObjects[o].channel_allocation[k]]
                IN \A i \in 1..Len(bfs) :
                      FullyTimed(bfs[i]) =>
                          /\ Val(audioObjects[o].start) <= Val(bfs[i].rtime)
                          /\ Val(bfs[i].rtime) + Val(bfs[i].duration)
                                 <= Val(audioObjects[o].start) + Val(audioObjects[o].duration)

\* C3: when fix_blockFormat_times_for_audioObjects has returned, every fully
\* timed block format lies within the span of every object that selects its
\* channel format, also when it was clamped for several objects.
C3_Containment ==
    call = "objects" /\ pc = "returned" => Contained

\* C3 witness: the call has returned having clamped one block format for the
\* first object and again for the second.
C3_Witness ==
    /\ call = "objects" /\ pc = "returned"
    /\ Len(audioObjects) = 2
    /\ \E id \in BlockIds :
          /\ FullyTimed(Block(id))
          /\ \A o \in {1, 2} :
                \E n \in 1..Len(warnings) :
                    /\ warnings[n].id = id /\ warnings[n].obj = o
                    /\ warnings[n].kind \in {"delayed rtime", "advanced end"}

\* C4 as claimed: a run of fix_blockFormat_timings on the scene that a
\* completed run of it left gives no warning, raises no error and changes
\* no block format.
C4_AsClaimed ==
    rerun => /\ audioChannelFormats = entry
             /\ warnings = <<>>
             /\ error = None

\* the visit of the containment pass that is next
AtVisit == pc = "clamp" /\ cursor <= Len(Visits)

VisitedBlock == audioChannelFormats[Visits[cursor][2]][Visits[cursor][3]]

VisitedObject == audioObjects[Visits[cursor][1]]

\* the start clamp of bf against obj cannot be done
FatalShift(bf, obj) ==
    /\ FullyTimed(bf)
    /\ Val(bf.rtime) < Val(obj.start)
    /\ LET shift == Val(obj.start) - Val(bf.rtime)
       IN \/ shift >= Val(bf.duration)
          \/ /\ has_interpolationLength(bf)
             /\ Val(bf.interpolationLength) <= shift

\* C5: the clamp of a fully timed block format that starts before the
\* object, by a shift that is at least its duration or at least its
\* interpolationLength, raises and leaves every block format as it was.
C5_FatalShift ==
    [][AtVisit /\ FatalShift(VisitedBlock, VisitedObject)
          => /\ pc' = "raised"
             /\ error' # None
             /\ Val(error').shift = Val(VisitedObject.start) - Val(VisitedBlock.rtime)
             /\ audioChannelFormats' = audioChannelFormats
             /\ warnings' = warnings]_vars

\* C5 witness: the start clamp has raised for a shift of at least the
\* duration of the block format, which is as the call found it.
C5_Witness ==
    /\ pc = "raised"
    /\ Val(error).kind = "after the block end"
    /\ Val(error).shift >= Val(Block(Val(error).id).duration)
    /\ Block(Val(error).id) = EntryBlock(Val(error).id)

\* C6 as claimed: when fix_blockFormat_timings has returned, every
\* consecutive pair of fully timed block formats is still contiguous.
C6_AsClaimed ==
    call = "timings" /\ pc = "returned" => Contiguous(audioChannelFormats)

\* C7: once a clamp has raised, nothing changes any more: no block format,
\* no warning, no further visit; and the step that raises touches no block
\* format but the one it visits, and keeps the warnings given so far.
C7_Abort ==
    [][/\ error # None =>
              /\ audioChannelFormats' = audioChannelFormats
              /\ cursor' = cursor
              /\ warnings' = warnings
              /\ error' = error
              /\ pc' = "raised"
       /\ error = None /\ error' # None =>
              /\ pc' = "raised"
              /\ \A id \in BlockIds :
                    id # <<Visits[cursor][2], Visits[cursor][3]>>
                        => audioChannelFormats'[id[1]][id[2]] = Block(id)
              /\ SubSeq(warnings', 1, Len(warnings)) = warnings]_vars

\* C7 witness: a clamp has raised after corrections were made, with visits
\* left over; the corrections are in place.
C7_Witness ==
    /\ pc = "raised" /\ error # None
    /\ warnings # <<>>
    /\ audioChannelFormats # entry
    /\ cursor < Len(Visits)

\* the pair (i, i + 1) of channel format c is one fix_blockFormat_durations
\* corrects, seen from the scene the call found
Corrected(c, i) ==
    /\ i < Len(entry[c])
    /\ FullyTimed(entry[c][i]) /\ FullyTimed(entry[c][i + 1])
    /\ Val(entry[c][i + 1].rtime) - Val(entry[c][i].rtime) # Val(entry[c][i].duration)

\* C8: fix_blockFormat_durations sets the duration of the first block format
\* of every pair to correct to the difference of the rtimes, with exactly
\* one warning for it (expanded when longer, else contracted, with the old
\* and new duration); its interpolationLength becomes the new duration when
\* old duration >= interpolationLength > new duration, and the
\* interpolationLength of every other block format is as it was.
C8_Correction ==
    call = "durations" /\ pc = "returned" =>
        \A c \in ChannelIds : \A i \in 1..Len(entry[c]) :
            LET a == entry[c][i]
                after == audioChannelFormats[c][i]
            IN IF Corrected(c, i)
               THEN LET old == Val(a.duration)
                        new == Val(entry[c][i + 1].rtime) - Val(a.rtime)
                    IN /\ after.duration = Some(new)
                       /\ WarningsOf(warnings, <<c, i>>) =
                             <<[kind |-> IF new > old THEN "expanded duration"
                                         ELSE "contracted duration",
                                id |-> <<c, i>>, old |-> old, new |-> new]>>
                       /\ after.interpolationLength =
                             IF /\ has_interpolationLength(a)
                                /\ old >= Val(a.interpolationLength)
                                /\ Val(a.interpolationLength) > new
                             THEN Some(new)
                             ELSE a.interpolationLength
               ELSE after.interpolationLength = a.interpolationLength

\* C8 witness: the call has contracted a block format and cut its
\* interpolationLength to the new duration.
C8_Witness ==
    /\ call = "durations" /\ pc = "returned"
    /\ Len(warnings) = 1
    /\ has_interpolationLength(entry[1][1])
    /\ Val(entry[1][1].interpolationLength) <= Val(entry[1][1].duration)
    /\ Val(entry[1][1].interpolationLength) > Val(audioChannelFormats[1][1].duration)
    /\ audioChannelFormats[1][1].interpolationLength = audioChannelFormats[1][1].duration

Bounded(bf) == Val(bf.interpolationLength) <= Val(bf.duration)

\* C9: the clamp of a fully timed block format whose interpolationLength is
\* at most its duration leaves the interpolationLength at most the duration.
C9_StaysBounded ==
    [][AtVisit /\ FullyTimed(VisitedBlock) /\ has_interpolationLength(VisitedBlock)
          /\ Bounded(VisitedBlock)
          => Bounded(audioChannelFormats'[Visits[cursor][2]][Visits[cursor][3]])]_vars

\* C9 witness: a block format with interpolationLength <= duration had its
\* end advanced and its interpolationLength reduced with it.
C9_Witness ==
    \E id \in BlockIds :
        /\ FullyTimed(EntryBlock(id)) /\ has_interpolationLength(EntryBlock(id))
        /\ Bounded(EntryBlock(id))
        /\ {"advanced end", "reduced the interpolationLength too"}
               \subseteq Kinds(WarningsOf(warnings, id))
        /\ Block(id).interpolationLength = Block(id).duration

\* C10 as claimed: when fix_blockFormat_timings has returned from a scene of
\* non-negative rtimes and durations, every duration is non-negative.
C10_AsClaimed ==
    call = "timings" /\ pc = "returned"
        => \A id \in BlockIds :
              Block(id).duration # None => Val(Block(id).duration) >= 0

\* ---------------------------------------- the pipeline on ascending rtimes
\* the rtimes of every consecutive pair of fully timed block formats ascend
Ascending(acf) ==
    \A c \in DOMAIN acf : \A i \in 1..(Len(acf[c]) - 1) :
        FullyTimed(acf[c][i]) /\ FullyTimed(acf[c][i + 1])
            => Val(acf[c][i].rtime) <= Val(acf[c][i + 1].rtime)

InitTimingsAscending == InitTimings /\ Ascending(audioChannelFormats)

SpecTimingsAscending == InitTimingsAscending /\ [][NextTimings]_vars

\* C4, C6 and C10 fail on no other scenes than those whose rtimes are out of
\* order: under SpecTimingsAscending a second run is silent and changes
\* nothing, the pairs are contiguous when the pipeline has returned, and no
\* duration is negative.
AscendingPipelineSound ==
    /\ C4_AsClaimed
    /\ C6_AsClaimed
    /\ C10_AsClaimed

====
